---- MODULE Spec2Model ----
(***************************************************************************)
(* Model of the paginated crawl engine of sales-analytixs:                 *)
(* WebScraper.scrape_books, WebScraper._extract_book_details and           *)
(* WebScraper.save_to_csv (src/web_scraper.py).                            *)
(*                                                                         *)
(* Text that the code slices or strips is a sequence of one-character      *)
(* strings; text that the code only copies is a TLA+ string.               *)
(***************************************************************************)
EXTENDS Integers, Sequences, FiniteSets, TLC

(***************************************************************************)
(* Bounds                                                                  *)
(***************************************************************************)
\* largest max_pages passed to scrape_books on a site whose pages are free
MaxPages == 2
\* largest number of writes (header, rows) that succeed before a failing write
MaxWrites == 2

(***************************************************************************)
(* The site: item elements, page bodies, fetch outcomes                    *)
(***************************************************************************)
base_url == "http://books.toscrape.com"

\* <article class="product_pod"> blocks.  A key that is absent from the
\* record is markup that is absent from the block.
GoodA ==
    [title |-> "A Light in the Attic",
     href |-> "catalogue/a-light-in-the-attic_1000/index.html",
     price_text |-> <<"L", "5", "1">>,      \* "L" is the pound sign
     availability_text |-> <<"\n", " ", "I", "n", " ", "\n">>,
     rating_class |-> <<"star-rating", "Three">>]

GoodB ==
    [title |-> "Tipping the Velvet",
     href |-> "catalogue/tipping-the-velvet_999/index.html",
     price_text |-> <<"L", "5", "3">>,
     availability_text |-> <<"I", "n">>,
     rating_class |-> <<"star-rating", "One">>]

NoTitle ==
    [href |-> GoodA.href, price_text |-> GoodA.price_text,
     availability_text |-> GoodA.availability_text,
     rating_class |-> GoodA.rating_class]

NoPrice ==
    [title |-> GoodA.title, href |-> GoodA.href,
     availability_text |-> GoodA.availability_text,
     rating_class |-> GoodA.rating_class]

NoAvailability ==
    [title |-> GoodA.title, href |-> GoodA.href,
     price_text |-> GoodA.price_text,
     rating_class |-> GoodA.rating_class]

NoRating ==
    [title |-> GoodA.title, href |-> GoodA.href,
     price_text |-> GoodA.price_text,
     availability_text |-> GoodA.availability_text]

\* <p class="star-rating"> with no second class: ['class'][1] is out of range
OneClassRating ==
    [title |-> GoodA.title, href |-> GoodA.href,
     price_text |-> GoodA.price_text,
     availability_text |-> GoodA.availability_text,
     rating_class |-> <<"star-rating">>]

NoHref ==
    [title |-> GoodA.title, price_text |-> GoodA.price_text,
     availability_text |-> GoodA.availability_text,
     rating_class |-> GoodA.rating_class]

BadElements ==
    {NoTitle, NoPrice, NoAvailability, NoRating, OneClassRating, NoHref}

WithPrice(text) == [GoodA EXCEPT !.price_text = text]

\* price texts other than a pound sign followed by a number: no symbol, the
\* pound sign decoded as two characters ("A" is the stray first one), the
\* empty text, a word after the sign
OddPrices ==
    {WithPrice(<<"5", "1">>), WithPrice(<<"A", "L", "5", "1">>),
     WithPrice(<< >>), WithPrice(<<"L", "n", "a">>)}

\* elements that are combined freely on a page
Pool == {GoodA, GoodB, NoPrice}

\* the lists soup.find_all('article', class_='product_pod') can return
Bodies ==
    {<< >>} \cup {<<a>> : a \in Pool \cup BadElements \cup OddPrices}
            \cup {<<a, b>> : a \in Pool, b \in Pool}

Timeout == [kind |-> "Timeout", status |-> 0, books |-> << >>]
ConnectionError == [kind |-> "ConnectionError", status |-> 0, books |-> << >>]
NotFound == [kind |-> "Response", status |-> 404, books |-> << >>]
Ok(body) == [kind |-> "Response", status |-> 200, books |-> body]

\* what one requests.get can bring
Outcomes == {Timeout, ConnectionError, NotFound} \cup {Ok(b) : b \in Bodies}

Rep(e, n) == [i \in 1..n |-> e]

\* sites with fixed pages
SiteA == <<Ok(Rep(GoodA, 20)), Ok(Rep(GoodB, 5)), Ok(<< >>), Ok(<< >>), Ok(<< >>)>>
SiteB == <<Ok(Rep(GoodA, 10)), Timeout, Ok(Rep(GoodB, 10))>>
SiteC == <<Ok(Rep(GoodA, 4) \o <<NoPrice>> \o Rep(GoodB, 5))>>
SiteD == <<ConnectionError, ConnectionError, ConnectionError>>

\* a site whose pages are not fixed: any page may bring any outcome
Free == << >>

FixedSites == {SiteA, SiteB, SiteC, SiteD}

VARIABLES
    site,       \* the origin server: Free, or the outcome of each page
    max_pages,  \* argument of scrape_books
    pc,         \* position of scrape_books
    page,       \* loop variable of scrape_books
    all_books,  \* accumulator of scrape_books
    books,      \* value returned by scrape_books (main's variable)
    trace,      \* requests.get and time.sleep calls, in order
    served,     \* outcome of each requests.get, in order
    log,        \* records written to self.logger
    file,       \* the output file of save_to_csv
    file_before, \* the output file as it was when save_to_csv was entered
    saved,      \* main has called save_to_csv
    raised,     \* the exception save_to_csv let through to main, "None" if none
    dashboard   \* the KPIDashboard under construction or constructed

vars == <<site, max_pages, pc, page, all_books, books, trace, served, log,
          file, file_before, saved, raised, dashboard>>

\* no KPIDashboard(...) call has been made
NotBuilt == [state |-> "NotBuilt"]

NoFile == [exists |-> FALSE, header |-> << >>, rows |-> << >>]
OldFile == [exists |-> TRUE, header |-> <<"stale">>, rows |-> << >>]

(***************************************************************************)
(* _extract_book_details                                                   *)
(***************************************************************************)
EmptyDict == << >>

FieldNames == <<"Title", "Price", "Availability", "Rating", "URL">>

IsSpace(c) == c \in {" ", "\n", "\t"}

RECURSIVE LStrip(_)
LStrip(s) == IF s # << >> /\ IsSpace(Head(s)) THEN LStrip(Tail(s)) ELSE s

RECURSIVE RStrip(_)
RStrip(s) ==
    IF s # << >> /\ IsSpace(s[Len(s)]) THEN RStrip(SubSeq(s, 1, Len(s) - 1))
    ELSE s

\* str.strip()
Strip(s) == RStrip(LStrip(s))

\* text[1:]
DropFirst(s) == SubSeq(s, 2, Len(s))

\* some statement of the try block raises
ExtractRaises(el) ==
    \/ "title" \notin DOMAIN el
    \/ "price_text" \notin DOMAIN el
    \/ "availability_text" \notin DOMAIN el
    \/ "rating_class" \notin DOMAIN el
    \/ Len(el.rating_class) < 2
    \/ "href" \notin DOMAIN el

BookRecord(el) ==
    [Title |-> el.title,
     Price |-> DropFirst(el.price_text),
     Availability |-> Strip(el.availability_text),
     Rating |-> el.rating_class[2],
     URL |-> base_url \o "/" \o el.href]

ExtractWarning == [level |-> "WARNING", msg |-> "Could not extract book details", page |-> 0]

\* variant: a record holding only what was read before the failure
PartialRecord == [Title |-> "A Light in the Attic"]

\* except Exception: ... return {}
OnExtractError == EmptyDict

extract_book_details(el) ==
    IF ExtractRaises(el) THEN OnExtractError ELSE BookRecord(el)

\* truth value of a dict
Truthy(d) == DOMAIN d # {}

\* variant: the result is appended without the test of line 57
KeepAlways(book_info) == TRUE

\* if book_info
Keep(book_info) == Truthy(book_info)

\* variant: a record that is already in the accumulator is not appended again
RECURSIVE ExtractLoopUnique(_, _, _)
ExtractLoopUnique(els, acc, lg) ==
    IF els = << >> THEN [all_books |-> acc, log |-> lg]
    ELSE LET book_info == extract_book_details(Head(els))
             lg2 == IF ExtractRaises(Head(els)) THEN Append(lg, ExtractWarning) ELSE lg
             seen == \E i \in 1..Len(acc) : acc[i] = book_info
         IN  ExtractLoopUnique(Tail(els),
                               IF Keep(book_info) /\ ~seen THEN Append(acc, book_info) ELSE acc,
                               lg2)

\* variant: a new record is put in front of the accumulator
RECURSIVE ExtractLoopPrepend(_, _, _)
ExtractLoopPrepend(els, acc, lg) ==
    IF els = << >> THEN [all_books |-> acc, log |-> lg]
    ELSE LET book_info == extract_book_details(Head(els))
             lg2 == IF ExtractRaises(Head(els)) THEN Append(lg, ExtractWarning) ELSE lg
         IN  ExtractLoopPrepend(Tail(els),
                                IF Keep(book_info) THEN <<book_info>> \o acc ELSE acc,
                                lg2)

\* for book in books: ... (lines 55-58), with the warnings of line 95
RECURSIVE ExtractLoop(_, _, _)
ExtractLoop(els, acc, lg) ==
    IF els = << >> THEN [all_books |-> acc, log |-> lg]
    ELSE LET book_info == extract_book_details(Head(els))
             lg2 == IF ExtractRaises(Head(els)) THEN Append(lg, ExtractWarning) ELSE lg
         IN  ExtractLoop(Tail(els),
                         IF Keep(book_info) THEN Append(acc, book_info) ELSE acc,
                         lg2)

(***************************************************************************)
(* scrape_books                                                            *)
(***************************************************************************)
\* variant: page 1 gets the catalogue address too
UrlPaged(p) == base_url \o "/catalogue/page-" \o ToString(p) \o ".html"

\* line 42
Url(p) ==
    IF p > 1 THEN base_url \o "/catalogue/page-" \o ToString(p) \o ".html"
    ELSE base_url

\* response.raise_for_status()
RaiseForStatus(status) == status >= 400 /\ status < 600

\* the exception lines 43-46 raise, "None" when they raise none
FetchException(o) ==
    IF o.kind # "Response" THEN o.kind
    ELSE IF RaiseForStatus(o.status) THEN "HTTPError" ELSE "None"

\* variant: only the HTTP status error is caught
IsHTTPError(exc) == exc = "HTTPError"

\* variant: only the errors of requests.get are caught
IsConnectionProblem(exc) == exc \in {"Timeout", "ConnectionError"}

\* except requests.RequestException
IsRequestException(exc) == exc \in {"Timeout", "ConnectionError", "HTTPError"}

\* what requests.get can bring for page p
Fetchable(p) ==
    IF site = Free THEN Outcomes
    ELSE IF p <= Len(site) THEN {site[p]} ELSE {NotFound}

Get(p) == [op |-> "get", page |-> p, url |-> Url(p)]
Sleep(p) == [op |-> "sleep", page |-> p, url |-> ""]

\* variant: the range ends one page early
NextIterationShort ==
    IF page + 1 < max_pages
    THEN /\ page' = page + 1
         /\ pc' = "Fetching"
    ELSE /\ page' = page
         /\ pc' = "Returning"

\* the for statement takes the next value of range(1, max_pages + 1)
NextIteration ==
    IF page < max_pages
    THEN /\ page' = page + 1
         /\ pc' = "Fetching"
    ELSE /\ page' = page
         /\ pc' = "Returning"

\* variant: the same page is fetched again
RetrySamePage ==
    /\ page' = page
    /\ pc' = "Fetching"

\* variant: a failed fetch ends the loop
StopCrawl ==
    /\ page' = page
    /\ pc' = "Returning"

\* continue (line 65)
Continue == NextIteration

\* variant: the crawl stops when nothing is extracted from the page
NoRecords(els) == ExtractLoop(els, << >>, << >>).all_books = << >>

\* variant: an empty page does not stop the crawl
NeverStop(els) == FALSE

\* if not books (line 51)
NoBooks(els) == els = << >>

Init ==
    /\ site \in {Free} \cup FixedSites
    /\ max_pages \in 0..(IF site = Free THEN MaxPages ELSE Len(site))
    /\ pc = "Idle"
    /\ page = 0
    /\ all_books = << >>
    /\ books = << >>
    /\ trace = << >>
    /\ served = << >>
    /\ log = << >>
    /\ file \in {NoFile, OldFile}
    /\ file_before = file
    /\ saved = FALSE
    /\ raised = "None"
    /\ dashboard = NotBuilt

\* scrape_books is entered: lines 38-40
Start ==
    /\ pc = "Idle"
    /\ all_books' = << >>
    /\ IF max_pages >= 1
       THEN page' = 1 /\ pc' = "Fetching"
       ELSE page' = page /\ pc' = "Returning"
    /\ UNCHANGED <<site, max_pages, books, trace, served, log, file, file_before, saved, raised, dashboard>>

\* lines 42-46 raise; lines 63-65
FetchFailed ==
    /\ pc = "Fetching"
    /\ \E o \in Fetchable(page) :
        /\ FetchException(o) # "None"
        /\ trace' = Append(trace, Get(page))
        /\ served' = Append(served, o)
        /\ IF IsRequestException(FetchException(o))
           THEN /\ log' = Append(log, [level |-> "ERROR", msg |-> "Error scraping page", page |-> page])
                /\ Continue
           ELSE /\ log' = log
                /\ page' = page
                /\ pc' = "Raised"
    /\ UNCHANGED <<site, max_pages, all_books, books, file, file_before, saved, raised, dashboard>>

\* lines 42-53: the page is fetched and has no item elements
FetchedNoBooks ==
    /\ pc = "Fetching"
    /\ \E o \in Fetchable(page) :
        /\ FetchException(o) = "None"
        /\ NoBooks(o.books)
        /\ trace' = Append(trace, Get(page))
        /\ served' = Append(served, o)
        /\ log' = Append(log, [level |-> "WARNING", msg |-> "No books found on page", page |-> page])
        /\ pc' = "Returning"
    /\ UNCHANGED <<site, max_pages, page, all_books, books, file, file_before, saved, raised, dashboard>>

\* lines 42-58: the page is fetched and its item elements are extracted
FetchedBooks ==
    /\ pc = "Fetching"
    /\ \E o \in Fetchable(page) :
        /\ FetchException(o) = "None"
        /\ ~NoBooks(o.books)
        /\ trace' = Append(trace, Get(page))
        /\ served' = Append(served, o)
        /\ LET r == ExtractLoop(o.books, all_books, log)
           IN  /\ all_books' = r.all_books
               /\ log' = r.log
        /\ pc' = "Sleeping"
    /\ UNCHANGED <<site, max_pages, page, books, file, file_before, saved, raised, dashboard>>

\* line 61
Wait ==
    /\ pc = "Sleeping"
    /\ trace' = Append(trace, Sleep(page))
    /\ NextIteration
    /\ UNCHANGED <<site, max_pages, all_books, books, served, log, file, file_before, saved, raised, dashboard>>

\* line 67
Return ==
    /\ pc = "Returning"
    /\ books' = all_books
    /\ pc' = "Done"
    /\ UNCHANGED <<site, max_pages, page, all_books, trace, served, log, file, file_before, saved, raised, dashboard>>

(***************************************************************************)
(* save_to_csv                                                             *)
(***************************************************************************)
Row(book) == [i \in 1..Len(FieldNames) |-> book[FieldNames[i]]]

Rows(bs) == [i \in 1..Len(bs) |-> Row(bs[i])]

Min(a, b) == IF a < b THEN a ELSE b

\* the keys of a record, in the order lines 86-92 insert them
Keys(d) == LET Has(k) == k \in DOMAIN d IN SelectSeq(FieldNames, Has)

\* fieldnames = books[0].keys()
Header(bs) == IF bs = << >> THEN << >> ELSE Keys(bs[1])

\* variant: writeheader is not called
WrittenWithoutHeader(bs, n) ==
    [exists |-> TRUE, header |-> << >>, rows |-> SubSeq(Rows(bs), 1, n - 1)]

\* the file after open(filename, 'w') and n writes (writeheader, then one
\* writerow per book)
Written(bs, n) ==
    [exists |-> TRUE,
     header |-> IF n >= 1 THEN Header(bs) ELSE << >>,
     rows |-> SubSeq(Rows(bs), 1, n - 1)]

\* variant: the file is opened whatever the list holds
AlwaysSave(bs) == FALSE

\* if not books (line 106)
NothingToSave(bs) == bs = << >>

\* what lines 111-117 can meet: no error, open raising, a write raising
\* after n writes
SaveOutcomes(bs) ==
    {[exc |-> "None", opened |-> TRUE, writes |-> 1 + Len(bs)]}
    \cup {[exc |-> e, opened |-> FALSE, writes |-> 0] :
             e \in {"FileNotFoundError", "PermissionError"}}
    \cup {[exc |-> "OSError", opened |-> TRUE, writes |-> n] :
             n \in 0..Min(Len(bs), MaxWrites)}

\* variant: only a missing directory is caught
IsFileNotFound(exc) == exc = "FileNotFoundError"

\* except IOError (IOError is OSError)
IsIOError(exc) == exc \in {"OSError", "FileNotFoundError", "PermissionError"}

\* main calls save_to_csv(books): lines 106-122
SaveToCsv ==
    /\ pc = "Done"
    /\ ~saved
    /\ file_before' = file
    /\ IF NothingToSave(books)
       THEN /\ log' = Append(log, [level |-> "WARNING", msg |-> "No data to save!", page |-> 0])
            /\ file' = file
            /\ raised' = "None"
       ELSE \E io \in SaveOutcomes(books) :
            /\ file' = IF io.opened THEN Written(books, io.writes) ELSE file
            /\ IF io.exc = "None"
               THEN /\ log' = Append(log, [level |-> "INFO", msg |-> "Data saved", page |-> 0])
                    /\ raised' = "None"
               ELSE IF IsIOError(io.exc)
               THEN /\ log' = Append(log, [level |-> "ERROR", msg |-> "Error saving CSV", page |-> 0])
                    /\ raised' = "None"
               ELSE /\ log' = log
                    /\ raised' = io.exc
    /\ saved' = TRUE
    /\ UNCHANGED <<site, max_pages, pc, page, all_books, books, trace, served, dashboard>>

Next ==
    \/ Start
    \/ FetchFailed
    \/ FetchedNoBooks
    \/ FetchedBooks
    \/ Wait
    \/ Return
    \/ SaveToCsv

Spec == Init /\ [][Next]_vars

\* the program is sequential and every call it makes returns
FairSpec == Spec /\ WF_vars(Next)

(***************************************************************************)
(* KPIDashboard (src/kpi_dashboard.py)                                     *)
(***************************************************************************)
RequiredColumns ==
    {"Date", "ProductID", "ProductName", "Category", "QuantitySold",
     "PricePerUnit", "TotalSales"}

Extensions == {".csv", ".CSV", ".xls", ".xlsx", ".XLSX", ".txt", ".json", ""}

\* str.lower() on the extensions above
Lower(ext) ==
    CASE ext = ".CSV" -> ".csv"
      [] ext = ".XLSX" -> ".xlsx"
      [] OTHER -> ext

\* the file named by sales_file: its extension, whether it can be read, the
\* columns of its table, whether its Date column parses, whether it has rows
SalesFiles ==
    [ext : Extensions, found : BOOLEAN, columns : SUBSET RequiredColumns,
     dates_ok : BOOLEAN, has_rows : BOOLEAN]

\* the exception the try block of __init__ raises (lines 19-36), "None" when
\* it raises none
LoadException(f) ==
    IF Lower(f.ext) \notin {".csv", ".xls", ".xlsx"} THEN "UnsupportedFileType"
    ELSE IF ~f.found THEN "FileNotFoundError"
    ELSE IF "Date" \notin f.columns THEN "KeyError"
    ELSE IF ~f.dates_ok THEN "DateParseError"
    ELSE IF RequiredColumns \ f.columns # {} THEN "MissingColumns"
    ELSE "None"

\* variant: __init__ returns after logging
Swallow == "Constructed"

\* raise (line 40)
Reraise == "Raised"

Called(f) ==
    [state |-> "Called", sales_file |-> f, log |-> << >>, exc |-> "None",
     kpis |-> FALSE, generated |-> FALSE, html |-> FALSE]

InitKPI ==
    /\ site = Free
    /\ max_pages = 0
    /\ pc = "Idle"
    /\ page = 0
    /\ all_books = << >>
    /\ books = << >>
    /\ trace = << >>
    /\ served = << >>
    /\ log = << >>
    /\ file = NoFile
    /\ file_before = NoFile
    /\ saved = FALSE
    /\ raised = "None"
    /\ dashboard \in {Called(f) : f \in SalesFiles}

crawl_vars ==
    <<site, max_pages, pc, page, all_books, books, trace, served, log, file,
      file_before, saved, raised>>

\* KPIDashboard(sales_file): lines 16-40
Construct ==
    /\ dashboard.state = "Called"
    /\ LET e == LoadException(dashboard.sales_file) IN
       dashboard' =
           IF e = "None" THEN [dashboard EXCEPT !.state = "Constructed"]
           ELSE [dashboard EXCEPT !.state = Reraise,
                                  !.exc = e,
                                  !.log = Append(@, "Error loading sales data")]
    /\ UNCHANGED crawl_vars

\* dashboard.calculate_kpis(): lines 49-68
CalculateKpis ==
    /\ dashboard.state = "Constructed"
    /\ ~dashboard.kpis
    /\ dashboard' = [dashboard EXCEPT !.kpis = TRUE]
    /\ UNCHANGED crawl_vars

\* dashboard.generate_dashboard(): lines 142-196; without rows kpis[0] raises,
\* and open or a write can raise
GenerateDashboard ==
    /\ dashboard.state = "Constructed"
    /\ ~dashboard.generated
    /\ \E io_ok \in BOOLEAN :
          dashboard' =
              IF dashboard.sales_file.has_rows /\ io_ok
              THEN [dashboard EXCEPT !.generated = TRUE, !.kpis = TRUE, !.html = TRUE,
                                     !.log = Append(@, "Dashboard generated")]
              ELSE [dashboard EXCEPT !.generated = TRUE, !.kpis = TRUE,
                                     !.log = Append(@, "Dashboard generation failed")]
    /\ UNCHANGED crawl_vars

NextKPI ==
    \/ Construct
    \/ CalculateKpis
    \/ GenerateDashboard

SpecKPI == InitKPI /\ [][NextKPI]_vars

(***************************************************************************)
(* Vocabulary of the properties                                            *)
(***************************************************************************)
Finished == pc = "Done"

\* the fetch brought a 2xx response
Succeeded(o) == o.kind = "Response" /\ o.status >= 200 /\ o.status < 300

\* all five fields of the item element can be read
Readable(el) ==
    /\ {"title", "href", "price_text", "availability_text", "rating_class"} \subseteq DOMAIN el
    /\ Len(el.rating_class) >= 2

Unreadable(el) == ~Readable(el)

IsGet(e) == e.op = "get"

\* the page indices fetched so far, in order
Fetched ==
    LET g == SelectSeq(trace, IsGet) IN [i \in 1..Len(g) |-> g[i].page]

\* number of time.sleep calls made in the iteration of page p
WaitsOf(p) == Cardinality({i \in 1..Len(trace) : trace[i].op = "sleep" /\ trace[i].page = p})

\* number of requests.get calls made for page p
GetsOf(p) == Cardinality({i \in 1..Len(trace) : trace[i].op = "get" /\ trace[i].page = p})

Count(lg, level, msg) ==
    Cardinality({i \in 1..Len(lg) : lg[i].level = level /\ lg[i].msg = msg})

FetchErrors(lg) == Count(lg, "ERROR", "Error scraping page")
ExtractWarnings(lg) == Count(lg, "WARNING", "Could not extract book details")

\* the Records of the readable item elements of a page, in element order
RecordsOf(body) ==
    LET r == SelectSeq(body, Readable) IN [i \in 1..Len(r) |-> BookRecord(r[i])]

\* the Records of the successfully fetched pages, in page order
RECURSIVE RecordsOfPages(_)
RecordsOfPages(os) ==
    IF os = << >> THEN << >>
    ELSE RecordsOfPages(SubSeq(os, 1, Len(os) - 1))
         \o (IF Succeeded(os[Len(os)]) THEN RecordsOf(os[Len(os)].books) ELSE << >>)

RemoveAt(s, i) == SubSeq(s, 1, i - 1) \o SubSeq(s, i + 1, Len(s))

\* a successfully fetched page without item elements
HasNoItemElements(o) == Succeeded(o) /\ o.books = << >>

\* a successfully fetched page from which no Record is extracted
YieldsNoRecord(o) == Succeeded(o) /\ RecordsOf(o.books) = << >>

\* this step is a fetch that fails / that succeeds
FailedFetchStep ==
    Len(served') = Len(served) + 1 /\ ~Succeeded(served'[Len(served')])
GoodFetchStep ==
    Len(served') = Len(served) + 1 /\ Succeeded(served'[Len(served')])

(***************************************************************************)
(* C1                                                                      *)
(***************************************************************************)
\* C1 as stated: when scrape_books has returned it has fetched exactly pages
\* 1..K, K <= max_pages, where K is the first successfully fetched page from
\* which zero Records were extracted (no item elements, or every element
\* dropped), and K = max_pages when there is no such page.
C1_StopsAtFirstPageYieldingNoRecord ==
    Finished =>
        LET K == Len(served) IN
        /\ Fetched = [i \in 1..K |-> i]
        /\ K <= max_pages
        /\ \A i \in 1..(K - 1) : ~YieldsNoRecord(served[i])
        /\ K < max_pages => YieldsNoRecord(served[K])

\* C1 amended: when scrape_books has returned it has fetched exactly pages
\* 1..K, K <= max_pages, where K is the first successfully fetched page that
\* has no item elements, and K = max_pages when there is no such page; a
\* page all of whose item elements are dropped does not stop the crawl.
C1_StopsAtFirstPageWithoutItemElements ==
    Finished =>
        LET K == Len(served) IN
        /\ Fetched = [i \in 1..K |-> i]
        /\ K <= max_pages
        /\ \A i \in 1..(K - 1) : ~HasNoItemElements(served[i])
        /\ K < max_pages => HasNoItemElements(served[K])

\* a crawl that went on after a page all of whose elements were dropped, and
\* one that an element-less page ended before max_pages
C1_Witness ==
    /\ Finished
    /\ site = Free
    /\ max_pages = 2
    /\ \/ Len(served) = 2 /\ YieldsNoRecord(served[1])
       \/ Len(served) = 1 /\ HasNoItemElements(served[1])

(***************************************************************************)
(* C2                                                                      *)
(***************************************************************************)
\* C2: a step in which a fetch fails leaves the accumulator as it was, logs
\* one fetch error naming the page, raises nothing, and goes on to fetch the
\* next page index when the failed index is below max_pages (to the return
\* otherwise); on the site with page 2 timing out and pages 1 and 3 holding 10
\* items each, max_pages = 3 gives 20 records and one logged fetch error.
C2_FailedFetchSkipsThePage ==
    [][/\ FailedFetchStep =>
            /\ all_books' = all_books
            /\ pc' # "Raised"
            /\ page < max_pages => (pc' = "Fetching" /\ page' = page + 1)
            /\ page >= max_pages => (pc' = "Returning")
            /\ log' = Append(log, [level |-> "ERROR", msg |-> "Error scraping page", page |-> page])
       /\ (Finished' /\ site' = SiteB /\ max_pages' = 3) =>
            /\ Len(books') = 20
            /\ FetchErrors(log') = 1
            /\ Fetched' = <<1, 2, 3>>
      ]_vars

C2_Witness ==
    /\ Finished
    /\ site = SiteB
    /\ max_pages = 3
    /\ ~Succeeded(served[2])
    /\ Len(books) = 20

(***************************************************************************)
(* C3                                                                      *)
(***************************************************************************)
\* C3: every finished page iteration that does not stop the crawl has made
\* exactly one wait, whether its fetch succeeded or failed, so that exactly
\* one wait lies between any two consecutive fetches.
C3_OneWaitPerContinuingIteration ==
    \A j \in 1..Len(served) :
        /\ (j < Len(served) \/ pc \in {"Returning", "Done"}) /\ ~HasNoItemElements(served[j])
              => WaitsOf(j) = 1
        /\ j < Len(served) => WaitsOf(j) = 1

(***************************************************************************)
(* C4                                                                      *)
(***************************************************************************)
\* C4: the accumulator, and the list returned, is the concatenation over the
\* successfully fetched pages, in page order, of the Records of their
\* readable item elements in element order: nothing is reordered,
\* deduplicated or dropped.
C4_ResultIsConcatenationInOrder ==
    /\ all_books = RecordsOfPages(served)
    /\ Finished => books = RecordsOfPages(served)

\* a returned list with the same Record twice, from two pages
C4_Witness ==
    /\ Finished
    /\ Len(served) = 2
    /\ Len(books) >= 3
    /\ \E i, j \in 1..Len(books) : i < j /\ books[i] = books[j]
    /\ \E i, j \in 1..Len(books) : i < j /\ books[i] # books[j]

(***************************************************************************)
(* C5                                                                      *)
(***************************************************************************)
\* C5: a step that fetches a page appends one Record per readable item
\* element and none for an unreadable one, logs one warning per unreadable
\* element, appends exactly what it would append were any one unreadable
\* element absent, and is followed by the wait of that page (nothing is
\* raised); a page of 10 blocks of which one lacks the price gives 9 records
\* and one warning.
C5_BadItemIsDroppedAlone ==
    [][/\ (GoodFetchStep /\ served'[Len(served')].books # << >>) =>
            LET B == served'[Len(served')].books
                added == SubSeq(all_books', Len(all_books) + 1, Len(all_books'))
            IN  /\ SubSeq(all_books', 1, Len(all_books)) = all_books
                /\ Len(added) = Len(SelectSeq(B, Readable))
                /\ \A i \in 1..Len(B) :
                      Unreadable(B[i]) =>
                          added = ExtractLoop(RemoveAt(B, i), << >>, << >>).all_books
                /\ ExtractWarnings(log') = ExtractWarnings(log) + Len(SelectSeq(B, Unreadable))
                /\ pc' = "Sleeping"
       /\ (Finished' /\ site' = SiteC /\ max_pages' = 1) =>
            /\ Len(books') = 9
            /\ ExtractWarnings(log') = 1
      ]_vars

C5_Witness ==
    /\ Finished
    /\ site = SiteC
    /\ max_pages = 1
    /\ Len(served[1].books) = 10
    /\ Len(books) = 9

(***************************************************************************)
(* C6                                                                      *)
(***************************************************************************)
IsText(v) == DOMAIN v = 1..Len(v) /\ \A i \in DOMAIN v : v[i] \in STRING

FullRecord(r) ==
    /\ DOMAIN r = {FieldNames[i] : i \in 1..Len(FieldNames)}
    /\ r.Title \in STRING
    /\ IsText(r.Price)
    /\ IsText(r.Availability)
    /\ r.Rating \in STRING
    /\ r.URL \in STRING

\* C6: in every state every element of the accumulator, and of the returned
\* list, holds exactly the five keys Title, Price, Availability, Rating, URL,
\* each with a string value; no empty or partial record is in it.
C6_OnlyFullRecords ==
    /\ \A i \in 1..Len(all_books) : FullRecord(all_books[i])
    /\ \A i \in 1..Len(books) : FullRecord(books[i])

\* a page with a readable and an unreadable element has been accumulated
C6_Witness ==
    /\ pc = "Sleeping"
    /\ Len(served[Len(served)].books) = 2
    /\ Len(all_books) = 1
    /\ \E i \in 1..2 : Unreadable(served[Len(served)].books[i])

(***************************************************************************)
(* C7                                                                      *)
(***************************************************************************)
\* C7: the fetched page indices are strictly increasing, start at 1, hold no
\* index twice and are at most max_pages many; every visited page had
\* exactly one request, a failed fetch included.
C7_PagesAscendingOnce ==
    /\ \A i, j \in 1..Len(Fetched) : i < j => Fetched[i] < Fetched[j]
    /\ Fetched # << >> => Fetched[1] = 1
    /\ Len(Fetched) <= max_pages
    /\ Len(served) = Len(Fetched)
    /\ \A p \in 1..max_pages : GetsOf(p) = (IF p < page \/ (p = page /\ pc # "Fetching") THEN 1 ELSE 0)

\* a crawl whose first fetch failed and that fetched the next page
C7_Witness ==
    /\ Finished
    /\ Len(Fetched) >= 2
    /\ ~Succeeded(served[1])

(***************************************************************************)
(* C8                                                                      *)
(***************************************************************************)
\* C8 as stated: on the site with 20 and 5 items on pages 1 and 2 and
\* item-less pages after them, max_pages = 5 gives exactly 25 records and
\* pages 3, 4 and 5 are never fetched.
C8_ScenarioAPages345NeverFetched ==
    (site = SiteA /\ max_pages = 5) =>
        /\ Finished => Len(books) = 25
        /\ \A p \in {3, 4, 5} : GetsOf(p) = 0

\* C8 amended: on that site max_pages = 5 gives exactly 25 records; page 3 is
\* fetched once (and found to have no items) and pages 4 and 5 are never
\* fetched.
C8_ScenarioAPages45NeverFetched ==
    (site = SiteA /\ max_pages = 5) =>
        /\ Finished => (Len(books) = 25 /\ Fetched = <<1, 2, 3>>)
        /\ \A p \in {4, 5} : GetsOf(p) = 0

C8_Witness ==
    /\ site = SiteA
    /\ max_pages = 5
    /\ Finished
    /\ Len(served[1].books) = 20
    /\ Len(served[2].books) = 5
    /\ Len(books) = 25

(***************************************************************************)
(* C9                                                                      *)
(***************************************************************************)
\* save_to_csv has returned without opening the file
NoWrite ==
    /\ file = file_before
    /\ log # << >>
    /\ log[Len(log)].msg = "No data to save!"
    /\ Count(log, "INFO", "Data saved") = 0
    /\ Count(log, "ERROR", "Error saving CSV") = 0

\* C9 as stated: with max_pages = 0, or when the fetch of page 1 fails
\* (whatever max_pages >= 1), scrape_books returns an empty list and
\* save_to_csv called with it performs no write.
C9_EmptyWhenPage1Fails ==
    (Finished /\ (max_pages = 0 \/ (served # << >> /\ ~Succeeded(served[1])))) =>
        /\ books = << >>
        /\ saved => NoWrite

\* C9 amended: with max_pages = 0, or when the fetch of page 1 and of every
\* later page of the crawl fails, scrape_books returns an empty list and
\* save_to_csv called with it performs no write.
C9_EmptyWhenEveryFetchFails ==
    (Finished /\ (max_pages = 0 \/ \A i \in 1..Len(served) : ~Succeeded(served[i]))) =>
        /\ books = << >>
        /\ saved => NoWrite

\* both cases, saved over a file that existed
C9_Witness ==
    /\ Finished
    /\ saved
    /\ file_before = OldFile
    /\ \/ max_pages = 0
       \/ Len(served) >= 2 /\ \A i \in 1..Len(served) : ~Succeeded(served[i])

(***************************************************************************)
(* C10                                                                     *)
(***************************************************************************)
\* C10: every crawl reaches Done, having made at most max_pages fetches, and
\* returns the accumulator; no failure of a fetch or of an extraction leaves
\* it with an exception raised; Done is never left.
C10_CrawlTerminates ==
    /\ <>Finished
    /\ [](Finished => (Len(Fetched) <= max_pages /\ books = all_books))
    /\ [](pc # "Raised")
    /\ [][Finished => Finished']_vars

\* a finished crawl with a failed fetch and a dropped item
C10_Witness ==
    /\ Finished
    /\ \E i \in 1..Len(served) : ~Succeeded(served[i])
    /\ \E i \in 1..Len(served) : \E k \in 1..Len(served[i].books) : Unreadable(served[i].books[k])

(***************************************************************************)
(* C11                                                                     *)
(***************************************************************************)
\* save_to_csv met no I/O error
SavedCleanly ==
    saved /\ raised = "None" /\ Count(log, "ERROR", "Error saving CSV") = 0

\* C11: after save_to_csv of a non-empty list (no I/O error met) the file
\* holds one header, the keys of the first record, and one row per record in
\* the order of the list; after save_to_csv of an empty list the file is as
\* it was (not created, not truncated) and "No data to save!" is logged.
C11_HeaderThenOneRowPerRecord ==
    /\ (saved /\ books = << >>) => NoWrite
    /\ (SavedCleanly /\ books # << >>) =>
          /\ file.exists
          /\ file.header = FieldNames
          /\ {file.header[k] : k \in 1..Len(file.header)} = DOMAIN books[1]
          /\ Len(file.rows) = Len(books)
          /\ \A i \in 1..Len(books) : \A k \in 1..Len(file.header) :
                file.rows[i][k] = books[i][file.header[k]]
          /\ Count(log, "INFO", "Data saved") = 1

\* two different records written over a file that existed
C11_Witness ==
    /\ SavedCleanly
    /\ file_before = OldFile
    /\ Len(books) = 2
    /\ books[1] # books[2]
    /\ Len(file.rows) = 2

(***************************************************************************)
(* C13                                                                     *)
(***************************************************************************)
\* the extension is none of .csv, .xls, .xlsx (in either case), or a
\* required column is missing
Malformed(f) ==
    \/ f.ext \notin {".csv", ".CSV", ".xls", ".xlsx", ".XLSX"}
    \/ \E c \in RequiredColumns : c \notin f.columns

\* C13: once KPIDashboard(sales_file) has ended for a file with an
\* unsupported extension or a missing required column, it has logged the
\* error once and raised; there is no instance, and neither calculate_kpis
\* nor generate_dashboard ever runs on it.
C13_MalformedInputRaises ==
    (dashboard.state # "Called" /\ Malformed(dashboard.sales_file)) =>
        /\ dashboard.state = "Raised"
        /\ dashboard.exc # "None"
        /\ dashboard.log = <<"Error loading sales data">>
        /\ ~dashboard.kpis
        /\ ~dashboard.generated
        /\ ~dashboard.html

\* a readable table with every column, under an unsupported extension
C13_Witness ==
    /\ dashboard.state = "Raised"
    /\ dashboard.exc = "UnsupportedFileType"
    /\ dashboard.sales_file.ext = ".txt"
    /\ dashboard.sales_file.found
    /\ dashboard.sales_file.columns = RequiredColumns

(***************************************************************************)
(* C14                                                                     *)
(***************************************************************************)
\* C14: a step that fetches a page from which at least one Record is
\* extracted appends these Records and leaves the crawl at the wait; the only
\* step from there is one wait, after which page index + 1 is fetched when
\* index < max_pages and the crawl returns otherwise, so the last page of
\* the range is followed by a wait too.
C14_AppendThenWaitThenNext ==
    [][/\ (GoodFetchStep /\ RecordsOf(served'[Len(served')].books) # << >>) =>
            /\ all_books' = all_books \o RecordsOf(served'[Len(served')].books)
            /\ pc' = "Sleeping"
            /\ page' = page
       /\ pc = "Sleeping" =>
            /\ trace' = Append(trace, Sleep(page))
            /\ served' = served
            /\ all_books' = all_books
            /\ page < max_pages => (pc' = "Fetching" /\ page' = page + 1)
            /\ page >= max_pages => (pc' = "Returning" /\ page' = page)
       /\ pc = "Returning" =>
            /\ pc' = "Done"
            /\ books' = all_books
            /\ trace' = trace
      ]_vars

\* the last page of the range gave Records and was followed by a wait
C14_Witness ==
    /\ Finished
    /\ max_pages >= 2
    /\ Len(served) = max_pages
    /\ ~YieldsNoRecord(served[max_pages])
    /\ Succeeded(served[max_pages])
    /\ trace[Len(trace)] = Sleep(max_pages)

(***************************************************************************)
(* C15                                                                     *)
(***************************************************************************)
\* C15: a crawl that has returned after fewer than max_pages fetches ended
\* on a successfully fetched page without items; the step that fetched that
\* page left the accumulator as it was and went to the return, and no wait
\* and no fetch came after it.
C15_OnlyEmptyPageEndsEarly ==
    [][/\ (GoodFetchStep /\ served'[Len(served')].books = << >>) =>
            /\ all_books' = all_books
            /\ pc' = "Returning"
       /\ (Finished' /\ Len(served') < max_pages') =>
            LET K == Len(served') IN
            /\ K >= 1
            /\ HasNoItemElements(served'[K])
            /\ YieldsNoRecord(served'[K])
            /\ trace'[Len(trace')] = Get(K)
            /\ books' = RecordsOfPages(SubSeq(served', 1, K - 1))
      ]_vars

\* a crawl that an empty page ended after it had accumulated Records
C15_Witness ==
    /\ Finished
    /\ Len(served) < max_pages
    /\ books # << >>
    /\ HasNoItemElements(served[Len(served)])

(***************************************************************************)
(* C16                                                                     *)
(***************************************************************************)
\* C16: the step in which save_to_csv runs lets no exception through and
\* leaves the list it was given (and the accumulator) as they were; it ends
\* either with the data saved or, when open or a write fails, with one
\* "Error saving CSV" logged.
C16_SaveAbsorbsIOErrors ==
    [][(~saved /\ saved') =>
            /\ raised' = "None"
            /\ books' = books
            /\ all_books' = all_books
            /\ pc' = pc
            /\ books # << >> =>
                 \/ /\ log' = Append(log, [level |-> "INFO", msg |-> "Data saved", page |-> 0])
                    /\ Len(file'.rows) = Len(books)
                 \/ /\ log' = Append(log, [level |-> "ERROR", msg |-> "Error saving CSV", page |-> 0])
      ]_vars

\* open failed, and a write failed after the header
C16_Witness ==
    /\ saved
    /\ books # << >>
    /\ Count(log, "ERROR", "Error saving CSV") = 1
    /\ \/ file = file_before
       \/ file.header = FieldNames /\ file.rows = << >>

(***************************************************************************)
(* C17                                                                     *)
(***************************************************************************)
CurrencySymbols == {"L"}

\* the text without its leading currency symbol, and otherwise as it is
WithoutCurrencySymbol(text) ==
    IF text # << >> /\ Head(text) \in CurrencySymbols THEN Tail(text) ELSE text

PricesOf(body) ==
    LET r == SelectSeq(body, Readable)
    IN  [i \in 1..Len(r) |-> WithoutCurrencySymbol(r[i].price_text)]

RECURSIVE PricesOfPages(_)
PricesOfPages(os) ==
    IF os = << >> THEN << >>
    ELSE PricesOfPages(SubSeq(os, 1, Len(os) - 1))
         \o (IF Succeeded(os[Len(os)]) THEN PricesOf(os[Len(os)].books) ELSE << >>)

\* C17: every readable item element of a fetched page has its Record in the
\* accumulator, whatever its price text (non-numeric, empty), and the Price
\* stored is the price text without its leading currency symbol and with
\* nothing else changed.
C17_PriceIsTextWithoutCurrencySymbol ==
    [i \in 1..Len(all_books) |-> all_books[i].Price] = PricesOfPages(served)

(***************************************************************************)
(* C18                                                                     *)
(***************************************************************************)
\* C18: the request for page 1 goes to the bare base URL and the request for
\* page N > 1 to base + "/catalogue/page-N.html"; different page indices have
\* different URLs; the i-th request of a crawl is the one of index i.
C18_PageUrls ==
    LET g == SelectSeq(trace, IsGet) IN
    /\ \A i \in 1..Len(g) :
          /\ g[i].page = i
          /\ i = 1 => g[i].url = "http://books.toscrape.com"
          /\ i > 1 => g[i].url = "http://books.toscrape.com" \o "/catalogue/page-"
                                 \o ToString(i) \o ".html"
    /\ \A i, j \in 1..Len(g) : i # j => g[i].url # g[j].url
    /\ \A p, q \in 1..max_pages : p # q => Url(p) # Url(q)

C18_Witness ==
    /\ Finished
    /\ Len(Fetched) = 3
    /\ trace[1].url = "http://books.toscrape.com"
    /\ \E i \in 1..Len(trace) :
          trace[i].url = "http://books.toscrape.com/catalogue/page-3.html"

(***************************************************************************)
(* C19                                                                     *)
(***************************************************************************)
IsPrefix(s, t) == Len(s) <= Len(t) /\ SubSeq(t, 1, Len(s)) = s

RECURSIVE ElementsOfPages(_)
ElementsOfPages(os) ==
    IF os = << >> THEN 0
    ELSE ElementsOfPages(Tail(os)) + Len(Head(os).books)

\* C19: in every step the accumulator before the step is a prefix of the
\* accumulator after it, and of the list returned once the crawl has
\* returned; its length never exceeds the number of item elements on the
\* pages fetched so far.
C19_AccumulatorOnlyGrows ==
    [][/\ IsPrefix(all_books, all_books')
       /\ Finished' => IsPrefix(all_books, books')
       /\ Len(all_books') <= ElementsOfPages(served')
      ]_vars

\* the second page added Records behind those of the first, and an element
\* was dropped
C19_Witness ==
    /\ pc = "Sleeping"
    /\ page = 2
    /\ Len(all_books) >= 2
    /\ Len(all_books) < ElementsOfPages(served)
    /\ RecordsOf(served[1].books) # << >>
    /\ RecordsOf(served[2].books) # << >>

====
